---- MODULE Spec2Model ----
(***************************************************************************)
(* Model of the image gallery frontend: the ImageFilter class              *)
(* (frontend/filter.js, here src/unnamed/part_000) and the gallery /       *)
(* pagination controller (src/frontend/app.js).                            *)
(*                                                                         *)
(* JavaScript strings are sequences of one-character strings, so that      *)
(* toLowerCase, trim, includes and JSON.stringify are computed and not     *)
(* assumed.  An optional field of a record is [has |-> BOOLEAN, v |-> x];  *)
(* has = FALSE is JavaScript's undefined.                                  *)
(*                                                                         *)
(* Of the page, the gallery, the tag buttons, the badges, the search box   *)
(* and the pagination buttons are state; the counters' text (#imageCount,  *)
(* #filterCount, #pageInfo), the modal and the dark-mode switch are        *)
(* written but never read by the code modelled here and are left out.      *)
(* A response of the backend has the shape the page expects                *)
(* ({images, page, total_pages, total_images}); a fetch that rejects or    *)
(* whose body does not parse is FetchFail.                                  *)
(***************************************************************************)
EXTENDS Integers, Sequences, FiniteSets, TLC

VARIABLES
    activeTagFilters,   \* filter.activeTagFilters: a JS Set, kept in insertion order
    textSearchQuery,    \* filter.textSearchQuery
    tagFilterMode,      \* filter.tagFilterMode: "and" | "or"
    lastCall,           \* the last ImageFilter method called: argument, history before it, result
    liveTags,           \* history: the raw tags added and not since removed (any casing) or cleared
    lastQuery,          \* history: the raw argument of the last setTextSearch
    allImages,          \* app.js:5
    allTags,            \* app.js:6
    currentPage,        \* app.js:7
    totalPages,         \* app.js:8
    totalImages,        \* app.js:9
    gallery,            \* what the #gallery element shows
    tagButtons,         \* the rendered .tag-btn elements: tag -> has class 'active'
    selectedTags,       \* the rendered .tag-badge elements, in order
    prevDisabled,       \* prevPageBtn.disabled
    nextDisabled,       \* nextPageBtn.disabled
    searchValue,        \* searchInput.value
    inflight,           \* loadPage calls suspended at their await, oldest first
    lastEvent           \* the last event the page handled

filterVars == <<activeTagFilters, textSearchQuery, tagFilterMode>>
histVars == <<liveTags, lastQuery>>
appVars == <<allImages, allTags, currentPage, totalPages, totalImages, gallery,
             tagButtons, selectedTags, prevDisabled, nextDisabled, searchValue,
             inflight, lastEvent>>
vars == <<filterVars, lastCall, histVars, appVars>>

----------------------------------------------------------------------------
(* Bounds of the model *)

MaxTags == 2        \* longest tag list handed to matchesTagFilters
MaxImages == 2      \* longest page of records
MaxTotal == 3       \* most records the backend holds
PageSize == 1       \* records per page of the backend
MaxInflight == 2    \* most loadPage calls suspended at once

----------------------------------------------------------------------------
(* JavaScript values *)

Absent == [has |-> FALSE, v |-> <<>>]
Some(x) == [has |-> TRUE, v |-> x]

Range(s) == {s[i] : i \in 1..Len(s)}

\* The letters toLowerCase changes (the records hold ASCII text)
UpperToLower ==
    ("A" :> "a") @@ ("B" :> "b") @@ ("C" :> "c") @@ ("D" :> "d") @@ ("E" :> "e") @@ ("F" :> "f") @@ ("G" :> "g")
    @@ ("H" :> "h") @@ ("I" :> "i") @@ ("J" :> "j") @@ ("K" :> "k") @@ ("L" :> "l") @@ ("M" :> "m") @@ ("N" :> "n")
    @@ ("O" :> "o") @@ ("P" :> "p") @@ ("Q" :> "q") @@ ("R" :> "r") @@ ("S" :> "s") @@ ("T" :> "t") @@ ("U" :> "u")
    @@ ("V" :> "v") @@ ("W" :> "w") @@ ("X" :> "x") @@ ("Y" :> "y") @@ ("Z" :> "z")

Whitespace == {" ", "\t", "\n"}

toLowerCaseChar(c) == IF c \in DOMAIN UpperToLower THEN UpperToLower[c] ELSE c

\* String.prototype.toLowerCase
toLowerCase(s) == [i \in 1..Len(s) |-> toLowerCaseChar(s[i])]

\* String.prototype.trim
trim(s) ==
    LET keep == {i \in 1..Len(s) : s[i] \notin Whitespace}
    IN  IF keep = {} THEN <<>>
        ELSE SubSeq(s, CHOOSE i \in keep : \A j \in keep : i <= j,
                       CHOOSE i \in keep : \A j \in keep : i >= j)

\* String.prototype.includes: q occurs in s as a contiguous substring
includes(s, q) ==
    \E i \in 0..(Len(s) - Len(q)) : SubSeq(s, i + 1, i + Len(q)) = q

\* Array.prototype.includes
arrayIncludes(arr, x) == \E i \in 1..Len(arr) : arr[i] = x

RECURSIVE joinComma(_)
joinComma(parts) ==
    IF parts = <<>> THEN <<>>
    ELSE IF Len(parts) = 1 THEN parts[1]
    ELSE parts[1] \o <<",">> \o joinComma(Tail(parts))

quoted(s) == <<"\"">> \o s \o <<"\"">>

\* A document value is a string or an array of strings (README.md:54-66)
JSONvalue(val) ==
    IF val.arr
    THEN <<"[">> \o joinComma([i \in 1..Len(val.items) |-> quoted(val.items[i])]) \o <<"]">>
    ELSE quoted(val.s)

\* JSON.stringify of a document: a sequence of [k, val] members in insertion order
JSONstringify(doc) ==
    <<"{">> \o joinComma([i \in 1..Len(doc) |-> quoted(doc[i].k) \o <<":">> \o JSONvalue(doc[i].val)])
           \o <<"}">>

Str(s) == [arr |-> FALSE, s |-> s, items |-> <<>>]
Arr(items) == [arr |-> TRUE, s |-> <<>>, items |-> items]

----------------------------------------------------------------------------
(* ImageFilter: the predicates *)

Returned(b) == [threw |-> FALSE, ret |-> b]
TypeError == [threw |-> TRUE, ret |-> FALSE]

\* matchesTagList comparing the image tags as written
matchesTagListAsWritten(this, imageTags) ==
    IF this.tagFilterMode = "and"
    THEN \A k \in 1..Len(this.activeTagFilters) :
             arrayIncludes(imageTags, this.activeTagFilters[k])
    ELSE \E k \in 1..Len(this.activeTagFilters) :
             arrayIncludes(imageTags, this.activeTagFilters[k])

\* The body of matchesTagFilters once imageTags.map has succeeded
matchesTagList(this, imageTags) ==
    LET imageTagsLower == [i \in 1..Len(imageTags) |-> toLowerCase(imageTags[i])]
    IN  IF this.tagFilterMode = "and"
        THEN \A k \in 1..Len(this.activeTagFilters) :
                 arrayIncludes(imageTagsLower, this.activeTagFilters[k])
        ELSE \E k \in 1..Len(this.activeTagFilters) :
                 arrayIncludes(imageTagsLower, this.activeTagFilters[k])

\* matchesTagFilters(imageTags), imageTags possibly undefined: with a filter
\* active, undefined.map raises a TypeError
matchesTagFilters(this, imageTags) ==
    IF Len(this.activeTagFilters) = 0 THEN Returned(TRUE)
    ELSE IF ~imageTags.has THEN TypeError
    ELSE Returned(matchesTagList(this, imageTags.v))

\* matchesTextSearch looking only into the fields its header comment lists
matchesTextSearchNoTags(this, imageData) ==
    LET q == this.textSearchQuery
    IN  IF q = <<>> THEN TRUE
        ELSE \/ imageData.filename.has /\ imageData.filename.v # <<>>
                /\ includes(toLowerCase(imageData.filename.v), q)
             \/ imageData.raw_text.has /\ imageData.raw_text.v # <<>>
                /\ includes(toLowerCase(imageData.raw_text.v), q)
             \/ imageData.structured_data.has
                /\ includes(toLowerCase(JSONstringify(imageData.structured_data.v)), q)
             \/ imageData.profile_mentions.has
                /\ \E i \in 1..Len(imageData.profile_mentions.v) :
                       includes(toLowerCase(imageData.profile_mentions.v[i]), q)
             \/ imageData.additional_metadata.has
                /\ includes(toLowerCase(JSONstringify(imageData.additional_metadata.v)), q)

matchesTextSearch(this, imageData) ==
    LET q == this.textSearchQuery
    IN  IF q = <<>> THEN TRUE
        ELSE \/ imageData.filename.has /\ imageData.filename.v # <<>>
                /\ includes(toLowerCase(imageData.filename.v), q)
             \/ imageData.raw_text.has /\ imageData.raw_text.v # <<>>
                /\ includes(toLowerCase(imageData.raw_text.v), q)
             \/ imageData.tags.has
                /\ \E i \in 1..Len(imageData.tags.v) :
                       includes(toLowerCase(imageData.tags.v[i]), q)
             \/ imageData.structured_data.has
                /\ includes(toLowerCase(JSONstringify(imageData.structured_data.v)), q)
             \/ imageData.profile_mentions.has
                /\ \E i \in 1..Len(imageData.profile_mentions.v) :
                       includes(toLowerCase(imageData.profile_mentions.v[i]), q)
             \/ imageData.additional_metadata.has
                /\ includes(toLowerCase(JSONstringify(imageData.additional_metadata.v)), q)

\* imageData.tags || []
tagsOrEmpty(imageData) == IF imageData.tags.has THEN imageData.tags.v ELSE <<>>

\* shouldShowImage letting either predicate suffice
shouldShowImageEither(this, imageData) ==
    \/ matchesTagFilters(this, Some(tagsOrEmpty(imageData))).ret
    \/ matchesTextSearch(this, imageData)

shouldShowImage(this, imageData) ==
    LET matchesTags == matchesTagFilters(this, Some(tagsOrEmpty(imageData))).ret
        matchesText == matchesTextSearch(this, imageData)
    IN  matchesTags /\ matchesText

\* images.filter(imageData => this.shouldShowImage(imageData))
RECURSIVE filterImages(_, _)
filterImages(this, images) ==
    IF images = <<>> THEN <<>>
    ELSE IF shouldShowImage(this, Head(images))
         THEN <<Head(images)>> \o filterImages(this, Tail(images))
         ELSE filterImages(this, Tail(images))

\* The ImageFilter instance `filter` of app.js:10
filter ==
    [ activeTagFilters |-> activeTagFilters,
      textSearchQuery |-> textSearchQuery,
      tagFilterMode |-> tagFilterMode ]

----------------------------------------------------------------------------
(* ImageFilter: the state and its mutators *)

\* Set.prototype.add / delete on a Set kept in insertion order
setAdd(set, x) == IF arrayIncludes(set, x) THEN set ELSE Append(set, x)
setDelete(set, x) == SelectSeq(set, LAMBDA y : y # x)

addTagFilter(tag) == activeTagFilters' = setAdd(activeTagFilters, toLowerCase(tag))

\* removeTagFilter deleting the tag as given
removeTagFilterAsGiven(tag) == activeTagFilters' = setDelete(activeTagFilters, tag)

removeTagFilter(tag) == activeTagFilters' = setDelete(activeTagFilters, toLowerCase(tag))

clearTagFilters == activeTagFilters' = <<>>

setTextSearch(query) == textSearchQuery' = trim(toLowerCase(query))

\* (mode || '').toLowerCase() === 'and' ? 'and' : 'or'
normalizedMode(mode) == toLowerCase(IF mode.has THEN mode.v ELSE <<>>)

\* setTagFilterMode comparing the argument as given
setTagFilterModeExact(mode) ==
    tagFilterMode' = IF mode = Some(<<"a","n","d">>) THEN "and" ELSE "or"

setTagFilterMode(mode) ==
    tagFilterMode' = IF normalizedMode(mode) = <<"a","n","d">> THEN "and" ELSE "or"

hasActiveFilters(this) == Len(this.activeTagFilters) > 0 \/ Len(this.textSearchQuery) > 0

\* History kept beside the filter: what was asked of it, in the caller's casing
histAdd(tag) == liveTags' = liveTags \cup {tag}
histRemove(tag) == liveTags' = {t \in liveTags : toLowerCase(t) # toLowerCase(tag)}
histClear == liveTags' = {}

----------------------------------------------------------------------------
(* Inputs *)

sDog == <<"D","o","g">>
sdog == <<"d","o","g">>
sDOG == <<"D","O","G">>
scat == <<"c","a","t">>
sPic == <<"p","i","c",".","p","n","g">>

RawTags == {sDog, sDOG, scat}

Queries == { <<>>, <<" "," ">>, sDOG, <<" ","d","o","g"," ">>, <<"o","g">>, <<"B","I","O">> }

Modes == { Some(<<"a","n","d">>), Some(<<"A","N","D">>), Some(<<"A","n","d">>),
           Some(<<"o","r">>), Some(<<"i","n","v","a","l","i","d">>), Some(<<>>), Absent }

SeqsUpTo(S, n) == UNION {[1..k -> S] : k \in 0..n}

TagLists == {Absent} \cup {Some(l) : l \in SeqsUpTo({sDog, sDOG, scat}, MaxTags)}

docBio == << [k |-> <<"B","i","o">>, val |-> Str(sDog)] >>
docUrls == << [k |-> <<"u">>, val |-> Arr(<<sDog, scat>>)] >>

Records ==
    [ filename : {Some(sPic)},
      tags : {Absent, Some(<<sDog>>)},
      raw_text : {Absent, Some(<<"a"," ">> \o sDog)},
      structured_data : {Absent, Some(docBio)},
      profile_mentions : {Absent, Some(<< <<"@">> \o sDog >>)},
      additional_metadata : {Absent, Some(docUrls)} ]

Rec(tags, raw) ==
    [ filename |-> Some(sPic), tags |-> tags, raw_text |-> raw,
      structured_data |-> Absent, profile_mentions |-> Absent,
      additional_metadata |-> Absent ]

ImagePool == { Rec(Some(<<sDog>>), Absent),
               Rec(Absent, Some(<<"a"," ">> \o sDog)),
               Rec(Some(<<scat, sdog>>), Absent) }

ImageSeqs == SeqsUpTo(ImagePool, MaxImages)

\* The records the backend serves
ServedPool == { Rec(Some(<<sDog, sdog>>), Absent),
                Rec(Absent, Some(<<"a"," ">> \o scat)) }

----------------------------------------------------------------------------
(* The ImageFilter object under arbitrary calls of its methods *)

Void == [threw |-> FALSE, ret |-> FALSE]
\* `pre` is the history as the call found it
Call(op, arg, result) == [op |-> op, arg |-> arg, result |-> result, pre |-> liveTags]

InitFilter ==
    /\ activeTagFilters = <<>>
    /\ textSearchQuery = <<>>
    /\ tagFilterMode = "or"
    /\ liveTags = {}
    /\ lastQuery = <<>>

AddTagFilter ==
    \E tag \in RawTags :
        /\ addTagFilter(tag)
        /\ histAdd(tag)
        /\ lastCall' = Call("addTagFilter", tag, Void)
        /\ UNCHANGED <<textSearchQuery, tagFilterMode, lastQuery, appVars>>

RemoveTagFilter ==
    \E tag \in RawTags :
        /\ removeTagFilter(tag)
        /\ histRemove(tag)
        /\ lastCall' = Call("removeTagFilter", tag, Void)
        /\ UNCHANGED <<textSearchQuery, tagFilterMode, lastQuery, appVars>>

ClearTagFilters ==
    /\ clearTagFilters
    /\ histClear
    /\ lastCall' = Call("clearTagFilters", <<>>, Void)
    /\ UNCHANGED <<textSearchQuery, tagFilterMode, lastQuery, appVars>>

SetTextSearch ==
    \E query \in Queries :
        /\ setTextSearch(query)
        /\ lastQuery' = query
        /\ lastCall' = Call("setTextSearch", query, Void)
        /\ UNCHANGED <<activeTagFilters, tagFilterMode, liveTags, appVars>>

SetTagFilterMode ==
    \E mode \in Modes :
        /\ setTagFilterMode(mode)
        /\ lastCall' = Call("setTagFilterMode", mode, Void)
        /\ UNCHANGED <<activeTagFilters, textSearchQuery, histVars, appVars>>

MatchesTagFilters ==
    \E imageTags \in TagLists :
        /\ lastCall' = Call("matchesTagFilters", imageTags, matchesTagFilters(filter, imageTags))
        /\ UNCHANGED <<filterVars, histVars, appVars>>

MatchesTextSearch ==
    \E imageData \in Records :
        /\ lastCall' = Call("matchesTextSearch", imageData, Returned(matchesTextSearch(filter, imageData)))
        /\ UNCHANGED <<filterVars, histVars, appVars>>

ShouldShowImage ==
    \E imageData \in ImagePool :
        /\ lastCall' = Call("shouldShowImage", imageData, Returned(shouldShowImage(filter, imageData)))
        /\ UNCHANGED <<filterVars, histVars, appVars>>

FilterImages ==
    \E images \in ImageSeqs :
        /\ lastCall' = Call("filterImages", images, Returned(filterImages(filter, images)))
        /\ UNCHANGED <<filterVars, histVars, appVars>>

NextFilter ==
    \/ AddTagFilter
    \/ RemoveTagFilter
    \/ ClearTagFilters
    \/ SetTextSearch
    \/ SetTagFilterMode
    \/ MatchesTagFilters
    \/ MatchesTextSearch
    \/ ShouldShowImage
    \/ FilterImages

----------------------------------------------------------------------------
(* The backend: GET /api/images?page=n *)

Min(a, b) == IF a < b THEN a ELSE b
Max(a, b) == IF a > b THEN a ELSE b

\* The answers to a request for `page`: the backend holds `total` records,
\* which may differ from one request to the next
backendResponses(page) ==
    UNION { { [ images |-> im, page |-> page,
                total_pages |-> (total + PageSize - 1) \div PageSize,
                total_images |-> total ] :
              im \in [1..Max(0, Min(PageSize, total - (page - 1) * PageSize)) -> ServedPool] } :
            total \in 0..MaxTotal }

----------------------------------------------------------------------------
(* app.js: rendering *)

Loading == [kind |-> "loading", cards |-> <<>>]
ErrorMessage == [kind |-> "error", cards |-> <<>>]

renderGallery(images) ==
    IF Len(images) = 0 THEN [kind |-> "no-results", cards |-> <<>>]
    ELSE [kind |-> "cards", cards |-> images]

\* The tags of a page, as loadPage collects them into allTags
tagsOfPage(images) ==
    UNION { Range(tagsOrEmpty(images[i])) : i \in 1..Len(images) }

\* renderTagButtons: one button per tag, none active
renderTagButtons(tags) == [t \in tags |-> FALSE]

\* The filter as the handler under way leaves it
filterAfter ==
    [ activeTagFilters |-> activeTagFilters',
      textSearchQuery |-> textSearchQuery',
      tagFilterMode |-> tagFilterMode' ]

updateSelectedTags == selectedTags' = activeTagFilters'

applyFilters == gallery' = renderGallery(filterImages(filterAfter, allImages))

Event(kind, page, stale) == [kind |-> kind, page |-> page, stale |-> stale]

pageVars == <<allImages, allTags, currentPage, totalPages, totalImages>>
pagerVars == <<prevDisabled, nextDisabled>>

----------------------------------------------------------------------------
(* app.js: loadPage *)

RemoveAt(seq, i) == SubSeq(seq, 1, i - 1) \o SubSeq(seq, i + 1, Len(seq))

\* loadPage up to its first await: the placeholder is shown and the fetch is under way
loadPage(page) ==
    /\ gallery' = Loading
    /\ inflight' = Append(inflight, [page |-> page, overtaken |-> FALSE])

\* updatePaginationControls leaving `next` enabled on the last page
updatePaginationControlsOffByOne ==
    LET hasPages == totalPages' > 0
    IN  /\ prevDisabled' = (~hasPages \/ currentPage' <= 1)
        /\ nextDisabled' = (~hasPages \/ currentPage' > totalPages')

\* updatePaginationControls, from the page counters just stored
updatePaginationControls ==
    LET hasPages == totalPages' > 0
    IN  /\ prevDisabled' = (~hasPages \/ currentPage' <= 1)
        /\ nextDisabled' = (~hasPages \/ currentPage' >= totalPages')

\* loadPage after its awaits, the response `data` parsed: lines 50-69
loadPageResume(data) ==
    /\ allImages' = data.images
    /\ currentPage' = data.page
    /\ totalPages' = data.total_pages
    /\ totalImages' = data.total_images
    /\ allTags' = tagsOfPage(data.images)
    /\ tagButtons' = renderTagButtons(allTags')
    /\ gallery' = renderGallery(allImages')
    /\ updatePaginationControls

\* A catch block that also empties the page
loadPageCatchReset ==
    /\ gallery' = ErrorMessage
    /\ allImages' = <<>>
    /\ totalImages' = 0
    /\ UNCHANGED <<allTags, currentPage, totalPages, tagButtons, pagerVars>>

\* loadPage's catch block: fetch rejected or response.json() failed
loadPageCatch ==
    /\ gallery' = ErrorMessage
    /\ UNCHANGED <<pageVars, tagButtons, pagerVars>>

\* FetchResolve with request sequencing: the answer to an overtaken request
\* is dropped
FetchResolveSequenced ==
    \E i \in 1..Len(inflight) :
        \E data \in backendResponses(inflight[i].page) :
            /\ IF inflight[i].overtaken
               THEN UNCHANGED <<pageVars, tagButtons, gallery, pagerVars>>
               ELSE loadPageResume(data)
            /\ inflight' = RemoveAt([j \in 1..Len(inflight) |->
                                        IF j < i THEN [inflight[j] EXCEPT !.overtaken = TRUE]
                                        ELSE inflight[j]], i)
            /\ lastEvent' = Event("loaded", data.page, inflight[i].overtaken)
            /\ UNCHANGED <<filterVars, lastCall, histVars, selectedTags, searchValue>>

\* The i-th pending fetch answers; every older pending fetch is now overtaken
FetchResolve ==
    \E i \in 1..Len(inflight) :
        \E data \in backendResponses(inflight[i].page) :
            /\ loadPageResume(data)
            /\ inflight' = RemoveAt([j \in 1..Len(inflight) |->
                                        IF j < i THEN [inflight[j] EXCEPT !.overtaken = TRUE]
                                        ELSE inflight[j]], i)
            /\ lastEvent' = Event("loaded", data.page, inflight[i].overtaken)
            /\ UNCHANGED <<filterVars, lastCall, histVars, selectedTags, searchValue>>

FetchFail ==
    \E i \in 1..Len(inflight) :
        /\ loadPageCatch
        /\ inflight' = RemoveAt(inflight, i)
        /\ lastEvent' = Event("failed", inflight[i].page, FALSE)
        /\ UNCHANGED <<filterVars, lastCall, histVars, selectedTags, searchValue>>

----------------------------------------------------------------------------
(* app.js: event handlers *)

AppQueries == { <<>>, <<" ","C","a","t">> }
AppModes == { Some(<<"a","n","d">>), Some(<<"o","r">>) }

\* toggleTag(tag, button), bound to the button of `tag`
toggleTag(tag) ==
    /\ IF arrayIncludes(activeTagFilters, toLowerCase(tag))
       THEN /\ removeTagFilter(tag)
            /\ tagButtons' = [tagButtons EXCEPT ![tag] = FALSE]
       ELSE /\ addTagFilter(tag)
            /\ tagButtons' = [tagButtons EXCEPT ![tag] = TRUE]
    /\ updateSelectedTags
    /\ applyFilters

ToggleTag ==
    \E tag \in DOMAIN tagButtons :
        /\ UNCHANGED <<textSearchQuery, tagFilterMode, lastCall, histVars, pageVars,
                       pagerVars, searchValue, inflight>>
        /\ toggleTag(tag)
        /\ lastEvent' = Event("filter", 0, FALSE)

\* The click handler of a badge's remove mark (updateSelectedTags, lines 142-151)
RemoveBadge ==
    \E k \in 1..Len(selectedTags) :
        LET tag == selectedTags[k] IN
        /\ UNCHANGED <<textSearchQuery, tagFilterMode, lastCall, histVars, pageVars,
                       pagerVars, searchValue, inflight>>
        /\ removeTagFilter(tag)
        /\ tagButtons' = [t \in DOMAIN tagButtons |-> IF t = tag THEN FALSE ELSE tagButtons[t]]
        /\ updateSelectedTags
        /\ applyFilters
        /\ lastEvent' = Event("filter", 0, FALSE)

clearAllFilters ==
    /\ clearTagFilters
    /\ setTextSearch(<<>>)
    /\ searchValue' = <<>>
    /\ tagButtons' = [t \in DOMAIN tagButtons |-> FALSE]
    /\ updateSelectedTags
    /\ applyFilters

ClearFiltersClick ==
    /\ UNCHANGED <<tagFilterMode, lastCall, histVars, pageVars, pagerVars, inflight>>
    /\ clearAllFilters
    /\ lastEvent' = Event("filter", 0, FALSE)

SearchInput ==
    \E value \in AppQueries :
        /\ UNCHANGED <<activeTagFilters, tagFilterMode, lastCall, histVars, pageVars,
                       tagButtons, selectedTags, pagerVars, inflight>>
        /\ searchValue' = value
        /\ setTextSearch(value)
        /\ applyFilters
        /\ lastEvent' = Event("filter", 0, FALSE)

TagFilterModeChange ==
    \E value \in AppModes :
        /\ UNCHANGED <<activeTagFilters, textSearchQuery, lastCall, histVars, pageVars,
                       tagButtons, selectedTags, pagerVars, searchValue, inflight>>
        /\ setTagFilterMode(value)
        /\ applyFilters
        /\ lastEvent' = Event("filter", 0, FALSE)

clickRest == <<filterVars, lastCall, histVars, pageVars, tagButtons, selectedTags,
               pagerVars, searchValue>>

\* refreshDataBtn: loadImages -> loadPage(1)
RefreshClick ==
    /\ Len(inflight) < MaxInflight
    /\ loadPage(1)
    /\ lastEvent' = Event("refresh", 1, FALSE)
    /\ UNCHANGED clickRest

\* A disabled button dispatches no click
PrevClick ==
    /\ ~prevDisabled
    /\ IF currentPage > 1
       THEN /\ Len(inflight) < MaxInflight
            /\ loadPage(currentPage - 1)
            /\ lastEvent' = Event("prev", currentPage - 1, FALSE)
       ELSE /\ UNCHANGED <<gallery, inflight>>
            /\ lastEvent' = Event("prev", 0, FALSE)
    /\ UNCHANGED clickRest

NextClick ==
    /\ ~nextDisabled
    /\ IF currentPage < totalPages
       THEN /\ Len(inflight) < MaxInflight
            /\ loadPage(currentPage + 1)
            /\ lastEvent' = Event("next", currentPage + 1, FALSE)
       ELSE /\ UNCHANGED <<gallery, inflight>>
            /\ lastEvent' = Event("next", 0, FALSE)
    /\ UNCHANGED clickRest

----------------------------------------------------------------------------
(* Specifications *)

NoCall == Call("none", <<>>, Void)

\* app.js run to its end: the filter is constructed, loadImages() has called
\* loadPage(1), whose fetch is pending.  index.html decides whether the
\* pagination buttons start disabled.
InitApp ==
    /\ allImages = <<>>
    /\ allTags = {}
    /\ currentPage = 1
    /\ totalPages = 1
    /\ totalImages = 0
    /\ gallery = Loading
    /\ tagButtons = renderTagButtons({})
    /\ selectedTags = <<>>
    /\ prevDisabled \in BOOLEAN
    /\ nextDisabled \in BOOLEAN
    /\ searchValue = <<>>
    /\ inflight = << [page |-> 1, overtaken |-> FALSE] >>
    /\ lastEvent = Event("init", 1, FALSE)

Init == InitFilter /\ InitApp /\ lastCall = NoCall

Next ==
    \/ ToggleTag
    \/ RemoveBadge
    \/ ClearFiltersClick
    \/ SearchInput
    \/ TagFilterModeChange
    \/ RefreshClick
    \/ PrevClick
    \/ NextClick
    \/ FetchResolve
    \/ FetchFail

\* The page in the browser
Spec == Init /\ [][Next]_vars

\* The ImageFilter object alone, its methods called in any order; no page
\* event happens
InitFilterAlone == Init /\ ~prevDisabled /\ ~nextDisabled

SpecFilter == InitFilterAlone /\ [][NextFilter]_vars

----------------------------------------------------------------------------
(* Properties of ImageFilter, checked under SpecFilter *)

CaseInsensitiveEq(a, b) == toLowerCase(a) = toLowerCase(b)

IsBlank(s) == \A i \in 1..Len(s) : s[i] \in Whitespace

\* C1: matchesTagFilters on a tag list returns true when no tag filter is
\* active; otherwise, in 'and' mode, exactly when every active filter tag
\* equals some image tag up to case, and in 'or' mode exactly when some active
\* filter tag does.  So an empty tag list matches only with no filter active.
C1_MatchesTagFilters ==
    (lastCall.op = "matchesTagFilters" /\ lastCall.arg.has) =>
        LET imageTags == lastCall.arg.v
            active == Range(activeTagFilters)
            onImage(f) == \E i \in 1..Len(imageTags) : CaseInsensitiveEq(f, imageTags[i])
            expected == IF active = {} THEN TRUE
                        ELSE IF tagFilterMode = "and" THEN \A f \in active : onImage(f)
                        ELSE \E f \in active : onImage(f)
        IN  /\ lastCall.result = Returned(expected)
            /\ imageTags = <<>> => (lastCall.result.ret <=> active = {})

C1_Witness ==
    /\ lastCall.op = "matchesTagFilters"
    /\ tagFilterMode = "and"
    /\ Len(activeTagFilters) = 2
    /\ lastCall.arg = Some(<<sDOG, scat>>)
    /\ lastCall.result = Returned(TRUE)

\* C2: filterImages returns the records of its input, in input order, that
\* pass both the tag predicate and the text predicate; it leaves the filter
\* state alone; filtering its result again returns the result unchanged.
C2_FilterImages ==
    /\ [](lastCall.op = "filterImages" =>
            LET images == lastCall.arg
                out == lastCall.result.ret
                passes(r) == /\ matchesTagFilters(filter, Some(tagsOrEmpty(r))).ret
                             /\ matchesTextSearch(filter, r)
            IN  /\ out = SelectSeq(images, passes)
                /\ filterImages(filter, out) = out)
    /\ [][lastCall'.op = "filterImages" => UNCHANGED filterVars]_vars

C2_Witness ==
    /\ lastCall.op = "filterImages"
    /\ Len(activeTagFilters) > 0
    /\ textSearchQuery # <<>>
    /\ Len(lastCall.arg) = 2
    /\ Len(lastCall.result.ret) = 1
    /\ \E i \in 1..2 :
           /\ matchesTextSearch(filter, lastCall.arg[i])
           /\ ~matchesTagFilters(filter, Some(tagsOrEmpty(lastCall.arg[i]))).ret

\* The strings matchesTextSearch looks into, lowercased
searchable(imageData) ==
    LET opt(field, f(_)) == IF field.has THEN f(field.v) ELSE {}
        one(s) == {toLowerCase(s)}
        each(l) == {toLowerCase(l[i]) : i \in 1..Len(l)}
        doc(d) == {toLowerCase(JSONstringify(d))}
    IN  opt(imageData.filename, one) \cup opt(imageData.raw_text, one)
        \cup opt(imageData.tags, each) \cup opt(imageData.structured_data, doc)
        \cup opt(imageData.profile_mentions, each)
        \cup opt(imageData.additional_metadata, doc)

IsAnd(s) ==
    /\ Len(s) = 3
    /\ s[1] \in {"a", "A"}
    /\ s[2] \in {"n", "N"}
    /\ s[3] \in {"d", "D"}

\* C7 as stated: after setTagFilterMode(m) the mode is 'and' only when m is
\* exactly "and", and 'or' for every other argument ("AND", "And", ...).
C7_ExactlyAnd ==
    /\ tagFilterMode \in {"and", "or"}
    /\ lastCall.op = "setTagFilterMode" =>
           (tagFilterMode = "and" <=> lastCall.arg = Some(<<"a","n","d">>))

\* C7 amended: after setTagFilterMode(m), m a string or absent, the mode is
\* 'and' exactly when m is "and" in any letter case and 'or' otherwise; the
\* mode is always 'and' or 'or'.
C7_AndUpToCase ==
    /\ tagFilterMode \in {"and", "or"}
    /\ lastCall.op = "setTagFilterMode" =>
           /\ ~lastCall.result.threw
           /\ tagFilterMode = "and" <=> (lastCall.arg.has /\ IsAnd(lastCall.arg.v))

C7_Witness ==
    /\ lastCall.op = "setTagFilterMode"
    /\ lastCall.arg = Some(<<"A","N","D">>)
    /\ tagFilterMode = "and"

\* C8: matchesTagFilters, matchesTextSearch, shouldShowImage and filterImages
\* never raise, in any filter state, on a record whose optional fields are
\* absent or on an absent tag list, which counts as the empty list.
C8_Total ==
    lastCall.op \in {"matchesTagFilters", "matchesTextSearch", "shouldShowImage", "filterImages"} =>
        /\ ~lastCall.result.threw
        /\ (lastCall.op = "matchesTagFilters" /\ ~lastCall.arg.has) =>
               lastCall.result = matchesTagFilters(filter, Some(<<>>))

\* C9: the active tag set holds lowercased strings without duplicates, namely
\* the lowercased tags added and not since removed (in any casing) or cleared;
\* the text query is the last query set, lowercased and trimmed.
C9_FilterState ==
    /\ \A i \in 1..Len(activeTagFilters) :
           /\ activeTagFilters[i] = toLowerCase(activeTagFilters[i])
           /\ \A j \in 1..Len(activeTagFilters) :
                  activeTagFilters[i] = activeTagFilters[j] => i = j
    /\ Range(activeTagFilters) = {toLowerCase(t) : t \in liveTags}
    /\ textSearchQuery = toLowerCase(trim(lastQuery))
    /\ textSearchQuery # <<>> =>
           /\ textSearchQuery[1] \notin Whitespace
           /\ textSearchQuery[Len(textSearchQuery)] \notin Whitespace

C9_Witness ==
    /\ lastCall.op = "removeTagFilter"
    /\ lastCall.arg = sDOG
    /\ lastCall.pre = {sDog, scat}
    /\ activeTagFilters = <<scat>>

----------------------------------------------------------------------------
(* Properties of the page, checked under Spec *)

Shown(images) == renderGallery(images)

\* C4: when a page load completes, and after every tag toggle, badge removal,
\* search input, mode change and clear, the gallery shows exactly the records
\* of allImages that pass the current filter.
C4_GalleryIsFiltered ==
    lastEvent.kind \in {"loaded", "filter"} =>
        gallery = Shown(filterImages(filter, allImages))

Requested(page) == [page |-> page, overtaken |-> FALSE]

\* The step under way is the handler that leaves this kind of event (every
\* handler leaves its own)
Handled(kind) == lastEvent'.kind = kind

\* C5: a refresh or navigation click made while a fetch is pending starts one
\* more fetch and drops none; whichever pending fetch answers, in whatever
\* order, its response becomes allImages, currentPage and totalPages, so an
\* older request's response can be the one applied last.
C5_FetchRace ==
    [][ /\ (inflight # <<>> /\ Handled("refresh")) => inflight' = Append(inflight, Requested(1))
        /\ (inflight # <<>> /\ Handled("prev") /\ currentPage > 1) =>
               inflight' = Append(inflight, Requested(currentPage - 1))
        /\ (inflight # <<>> /\ Handled("next") /\ currentPage < totalPages) =>
               inflight' = Append(inflight, Requested(currentPage + 1))
        /\ Handled("loaded") =>
               \E i \in 1..Len(inflight) :
                   /\ Len(inflight') = Len(inflight) - 1
                   /\ \E data \in backendResponses(inflight[i].page) :
                          /\ allImages' = data.images
                          /\ currentPage' = data.page
                          /\ totalPages' = data.total_pages
                          /\ lastEvent' = Event("loaded", data.page, inflight[i].overtaken)
      ]_vars

\* The response applied last answers a request older than one already answered
C5_Witness ==
    /\ lastEvent.kind = "loaded"
    /\ lastEvent.stale
    /\ currentPage = 2
    /\ inflight = <<>>

\* C6: when a fetch fails, the gallery shows the error message, no request is
\* started, and allImages, allTags, currentPage, totalPages and totalImages
\* keep their values.
C6_FetchFailure ==
    [][ Handled("failed") =>
            /\ gallery' = ErrorMessage
            /\ \E i \in 1..Len(inflight) : inflight' = RemoveAt(inflight, i)
            /\ UNCHANGED pageVars
      ]_vars

C6_Witness ==
    /\ lastEvent.kind = "failed"
    /\ gallery = ErrorMessage
    /\ Len(allImages) > 0
    /\ allTags # {}
    /\ currentPage = 2
    /\ totalImages > 0

PagerAfterLoad ==
    lastEvent.kind = "loaded" =>
        /\ prevDisabled <=> (totalPages <= 0 \/ currentPage <= 1)
        /\ nextDisabled <=> (totalPages <= 0 \/ currentPage >= totalPages)

\* The page the click under way asks for, 0 if it asks for none
AskedPage ==
    IF Len(inflight') = Len(inflight) + 1 /\ SubSeq(inflight', 1, Len(inflight)) = inflight
    THEN inflight'[Len(inflight')].page
    ELSE 0

\* C10 as stated: after a completed load the previous button is disabled
\* exactly when totalPages <= 0 or currentPage <= 1, the next button exactly
\* when totalPages <= 0 or currentPage >= totalPages; and a previous or next
\* click never asks for a page below 1 or above totalPages.
C10_ClicksStayInRange ==
    /\ []PagerAfterLoad
    /\ [][ (Handled("prev") \/ Handled("next")) /\ inflight' # inflight =>
               (1 <= AskedPage /\ AskedPage <= totalPages) ]_vars

\* C10 amended: the buttons as stated; a previous click asks for
\* currentPage - 1, and only when currentPage > 1, so never for a page below
\* 1; a next click asks for currentPage + 1, and only when currentPage <
\* totalPages, so never for a page above totalPages.
C10_PagerGuards ==
    /\ []PagerAfterLoad
    /\ [][ /\ Handled("prev") =>
               /\ AskedPage = (IF currentPage > 1 THEN currentPage - 1 ELSE 0)
               /\ inflight' # inflight => AskedPage >= 1
           /\ Handled("next") =>
               /\ AskedPage = (IF currentPage < totalPages THEN currentPage + 1 ELSE 0)
               /\ inflight' # inflight => AskedPage <= totalPages
         ]_vars

C10_Witness ==
    /\ lastEvent.kind = "prev"
    /\ lastEvent.page = 2
    /\ currentPage = 3
    /\ totalPages = 1
    /\ ~prevDisabled
    /\ nextDisabled

\* C11: in every state a rendered tag button is marked active exactly when
\* its tag, lowercased, is in the filter's active tag set, also when the page
\* holds tags that differ only in letter case and after a page load has
\* rendered the buttons again while filters are active.
C11_ButtonsAgreeWithFilters ==
    \A tag \in DOMAIN tagButtons :
        tagButtons[tag] <=> arrayIncludes(activeTagFilters, toLowerCase(tag))

====
